---- MODULE Spec2Model ----
(***************************************************************************)
(* KubeIngressProxy (src/kubespawner/proxy.py): routes materialised as     *)
(* three cluster resources (endpoints, service, ingress) named after the   *)
(* routespec, written by add_route, removed by delete_route and read back  *)
(* from the ingress reflector by get_all_routes.                           *)
(*                                                                         *)
(* Strings that the code computes with (routespecs, resource names, JSON   *)
(* text) are sequences of one-character strings.  The cluster API server,  *)
(* the three reflectors (watch caches), make_ingress and                   *)
(* generate_hashed_slug are collaborators of proxy.py: the cluster is the  *)
(* environment, the others are modelled from their documented interface.   *)
(***************************************************************************)
EXTENDS Integers, Sequences, FiniteSets, TLC

\* ------------------------------------------------------------------ bounds
\* Calls (add_route / delete_route) started in one behaviour.
MaxCalls == 3
\* Sleeps exponential_backoff can fit before its deadline.
MaxBackoffTries == 1

\* ------------------------------------------------------------ input domains
Procs == {1, 2}

Routespecs == { <<"/", "a">>, <<"/", "B">> }

IpTargets == { "10.0.0.1:8000", "10.0.0.2:8000" }
HostTargets == { "hub.example:8000" }
Targets == IpTargets \cup HostTargets

\* JSON-serialisable payloads: a dict as a sequence of <<key, value>> pairs.
Datas == { <<>>, << <<"user", "x">> >> }

\* The arguments add_route is called with.
AddInputs == { a \in Routespecs \X Targets \X Datas : a[1] = <<"/", "a">> /\ a[3] = <<>> }

\* The routespecs delete_route is called with.
DeleteInputs == { <<"/", "a">> }

\* Routes a previous process of the proxy may have left in the cluster.
InitialRoutes ==
    { {},
      { << <<"/", "a">>, "10.0.0.1:8000", <<>> >>,
        << <<"/", "B">>, "10.0.0.2:8000", << <<"user", "x">> >> >> } }

Kinds == { "endpoints", "service", "ingress" }

\* self.namespace (line 58): one configured namespace.
namespace == "default"

\* ------------------------------------------------------------- name codec
safe_chars == { "a", "b", "c", "d", "e", "f", "j", "o", "p", "r", "t", "u", "y",
                "0", "1", "2", "3", "4", "5", "6", "7", "8", "9" }

\* escapism's escape of one unsafe character: the escape char and the
\* upper-case hexadecimal of its byte.
HexOf(c) ==
    CASE c = "/" -> <<"2", "F">>
      [] c = "B" -> <<"4", "2">>
      [] c = "-" -> <<"2", "D">>
      [] c = "é" -> <<"C", "3", "-", "A", "9">>
      [] OTHER   -> <<"3", "F">>

RECURSIVE escape(_)
escape(s) ==
    IF s = <<>> THEN <<>>
    ELSE (IF Head(s) \in safe_chars THEN <<Head(s)>> ELSE <<"-">> \o HexOf(Head(s)))
         \o escape(Tail(s))

LowerChar(c) ==
    CASE c = "A" -> "a" [] c = "B" -> "b" [] c = "C" -> "c"
      [] c = "D" -> "d" [] c = "E" -> "e" [] c = "F" -> "f"
      [] OTHER   -> c

lower(s) == [i \in 1..Len(s) |-> LowerChar(s[i])]

slug_limit == 63
hash_length == 6

\* Stand-in for the first hash_length hex digits of the slug's digest.
slug_hash(slug) ==
    LET d == Len(slug) % 10
    IN  [i \in 1..hash_length |-> IF i = 1 THEN "c" ELSE
                                  CASE d = 0 -> "0" [] d = 1 -> "1" [] d = 2 -> "2"
                                    [] d = 3 -> "3" [] d = 4 -> "4" [] d = 5 -> "5"
                                    [] d = 6 -> "6" [] d = 7 -> "7" [] d = 8 -> "8"
                                    [] OTHER -> "9"]

generate_hashed_slug(slug) ==
    IF Len(slug) < slug_limit - hash_length THEN slug
    ELSE lower(SubSeq(slug, 1, slug_limit - hash_length - 1) \o <<"-">> \o slug_hash(slug))

safe_name_for_routespec(routespec) ==
    generate_hashed_slug(
        <<"j", "u", "p", "y", "t", "e", "r", "-">>
        \o escape(routespec)
        \o <<"-", "r", "o", "u", "t", "e">>)

\* The name left as safe_name_for_routespec returns it.
add_safe_name_raw(routespec) == safe_name_for_routespec(routespec)

\* add_route, line 165.
add_safe_name(routespec) == lower(safe_name_for_routespec(routespec))

\* The name left as safe_name_for_routespec returns it.
delete_safe_name_raw(routespec) == safe_name_for_routespec(routespec)

\* delete_route, line 245.
delete_safe_name(routespec) == lower(safe_name_for_routespec(routespec))

\* safe_name as add_route (line 165) and delete_route (line 245) compute it,
\* tabulated over the routespecs of the model.
SafeNames == [r \in Routespecs |-> add_safe_name(r)]

SafeName(routespec) == SafeNames[routespec]

Names == { SafeName(r) : r \in Routespecs }

\* ------------------------------------------------------- resource builder
None == [none |-> TRUE]

RECURSIVE DumpPairs(_)
DumpPairs(d) ==
    IF d = <<>> THEN <<>>
    ELSE <<"\"", d[1][1], "\"", ":", "\"", d[1][2], "\"">>
         \o (IF Len(d) > 1 THEN <<",">> ELSE <<>>)
         \o DumpPairs(Tail(d))

\* json.dumps(data): the annotation text.
json_dumps(d) == <<"{">> \o DumpPairs(d) \o <<"}">>

RECURSIVE LoadPairs(_)
LoadPairs(t) ==
    IF Len(t) < 7 THEN <<>>
    ELSE << <<t[2], t[6]>> >>
         \o LoadPairs(SubSeq(t, IF Len(t) > 7 /\ t[8] = "," THEN 9 ELSE 8, Len(t)))

\* json.loads(text) (line 294).
json_loads(t) == LoadPairs(SubSeq(t, 2, Len(t) - 1))

\* make_ingress(safe_name, routespec, target, labels, data): no endpoints
\* body when the target is not an IP address.
make_endpoint(name, routespec, target, data) ==
    IF target \in IpTargets
    THEN [name |-> name, target |-> target]
    ELSE None

make_service(name, routespec, target, data) ==
    [name |-> name,
     type |-> IF target \in IpTargets THEN "ClusterIP" ELSE "ExternalName",
     target |-> target]

make_ingress_body(name, routespec, target, data) ==
    [name |-> name,
     routespec |-> routespec,
     target |-> target,
     data |-> json_dumps(data)]


\* ------------------------------------------------------------------ state
VARIABLES
    cluster,   \* the cluster API's objects: kind -> (<<namespace, name>> -> body)
    cache,     \* the reflectors' resources: kind -> ("namespace/name" -> body)
    gc,        \* services deleted whose endpoints the cluster still has to cascade-delete
    pc,        \* per caller: [step, kind], where its call is suspended
    call,      \* per caller: the running (or last finished) call and its arguments
    tries,     \* per caller: sleeps of the running exponential_backoff
    seen,      \* per caller: kinds whose name the running call found in the cache
    log,       \* per caller: the API requests of the call, each with its answer
    err,       \* per caller: what the call raised
    objs,      \* per caller: the cluster objects of the call's name when it ended
    last,      \* per caller: the call before the current one
    ncalls,    \* calls started so far
    snap,      \* per caller: ingress_copy of the running get_all_routes
    table,     \* per caller: what its last get_all_routes returned
    names      \* the last safe names computed: [routespec, name, by], newest first

vars == <<cluster, cache, gc, pc, call, tries, seen, log, err, objs, last, ncalls,
          snap, table, names>>

NoCall == [op |-> "none", routespec |-> <<>>, target |-> "", data |-> <<>>, cascade |-> FALSE]
NoErr == [type |-> "none", status |-> 0, kind |-> "-"]
ApiException(status, kind) == [type |-> "ApiException", status |-> status, kind |-> kind]
TimeoutError(kind) == [type |-> "TimeoutError", status |-> 0, kind |-> kind]
TypeError(kind) == [type |-> "TypeError", status |-> 0, kind |-> kind]

Idle == [step |-> "idle", kind |-> "-"]
Done == [step |-> "done", kind |-> "-"]
At(step, kind) == [step |-> step, kind |-> kind]

NoObjs == [k \in Kinds |-> None]
NoLast == [call |-> NoCall, err |-> NoErr, objs |-> NoObjs]
NoTable == [routes |-> <<>>, live |-> <<>>]

\* The reflectors key their resources by f'{namespace}/{name}'.
CacheKey(ns, name) == <<ns, "/", name>>
\* The cluster addresses an object by namespace and name.
ApiKey(ns, name) == <<ns, name>>

Obj(store, kind, key) == IF key \in DOMAIN store[kind] THEN store[kind][key] ELSE None

Put(store, kind, key, body) ==
    [store EXCEPT ![kind] = [x \in (DOMAIN @) \cup {key} |-> IF x = key THEN body ELSE @[x]]]

Remove(store, kind, key) ==
    [store EXCEPT ![kind] = [x \in (DOMAIN @) \ {key} |-> @[x]]]

Request(verb, kind, ns, name, status) ==
    [verb |-> verb, kind |-> kind, namespace |-> ns, name |-> name, status |-> status]

\* The objects of kind `kind` that the routes `routes` consist of.
Built(routes, kind) ==
    { IF kind = "endpoints" THEN make_endpoint(SafeName(a[1]), a[1], a[2], a[3])
      ELSE IF kind = "service" THEN make_service(SafeName(a[1]), a[1], a[2], a[3])
      ELSE make_ingress_body(SafeName(a[1]), a[1], a[2], a[3]) : a \in routes }
    \ {None}

\* Those objects as the cluster holds them, and as a reflector lists them.
ClusterOf(routes) ==
    [k \in Kinds |->
        [key \in { ApiKey(namespace, b.name) : b \in Built(routes, k) } |->
            CHOOSE b \in Built(routes, k) : ApiKey(namespace, b.name) = key]]

CacheOf(routes) ==
    [k \in Kinds |->
        [key \in { CacheKey(namespace, b.name) : b \in Built(routes, k) } |->
            CHOOSE b \in Built(routes, k) : CacheKey(namespace, b.name) = key]]

\* After initialize_resources (lines 117-140): the reflectors hold what the
\* cluster holds, and no call has been made.
Init ==
    /\ \E routes \in InitialRoutes :
         /\ cluster = ClusterOf(routes)
         /\ cache = CacheOf(routes)
    /\ gc = {}
    /\ pc = [p \in Procs |-> Idle]
    /\ call = [p \in Procs |-> NoCall]
    /\ tries = [p \in Procs |-> 0]
    /\ seen = [p \in Procs |-> {}]
    /\ log = [p \in Procs |-> <<>>]
    /\ err = [p \in Procs |-> NoErr]
    /\ objs = [p \in Procs |-> NoObjs]
    /\ last = [p \in Procs |-> NoLast]
    /\ ncalls = 0
    /\ snap = [p \in Procs |-> <<>>]
    /\ table = [p \in Procs |-> NoTable]
    /\ names = <<>>

\* ------------------------------------------------------------ cluster API
\* What the API server can answer; 500 stands for any other failure status.
CreateStatuses(kind, ns, body) ==
    {500} \cup (IF ApiKey(ns, body.name) \in DOMAIN cluster[kind] THEN {409} ELSE {201})

PatchStatuses(kind, ns, name) ==
    {500} \cup (IF ApiKey(ns, name) \in DOMAIN cluster[kind] THEN {200} ELSE {404})

DeleteStatuses(kind, ns, name) ==
    {500} \cup (IF ApiKey(ns, name) \in DOMAIN cluster[kind] THEN {200} ELSE {404})

\* The cluster after a request answered `status`.
Created(kind, ns, body, status) ==
    IF status = 201 THEN Put(cluster, kind, ApiKey(ns, body.name), body) ELSE cluster

Patched(kind, ns, name, body, status) ==
    IF status = 200 THEN Put(cluster, kind, ApiKey(ns, name), body) ELSE cluster

Deleted(kind, ns, name, status) ==
    IF status = 200 THEN Remove(cluster, kind, ApiKey(ns, name)) ELSE cluster

\* Deleting a service makes the cluster delete its endpoints in the background.
Cascading(kind, ns, name, status) ==
    IF kind = "service" /\ status = 200 THEN gc \cup {ApiKey(ns, name)} ELSE gc

\* The response object of an awaited request: a value, not an awaitable.
Response(status) == [awaitable |-> FALSE, status |-> status]

\* ------------------------------------------------------------- the caller
Body(c, kind) ==
    LET n == SafeName(c.routespec)
    IN  CASE kind = "endpoints" -> make_endpoint(n, c.routespec, c.target, c.data)
          [] kind = "service"   -> make_service(n, c.routespec, c.target, c.data)
          [] OTHER              -> make_ingress_body(n, c.routespec, c.target, c.data)

NextKind(kind) == IF kind = "endpoints" THEN "service" ELSE "ingress"

ObjsNamed(store, name) == [k \in Kinds |-> Obj(store, k, ApiKey(namespace, name))]

\* The call of p ends, raising e (NoErr: it returns).
Finish(p, e, cl) ==
    /\ pc' = [pc EXCEPT ![p] = Done]
    /\ err' = [err EXCEPT ![p] = e]
    /\ objs' = [objs EXCEPT ![p] = ObjsNamed(cl, SafeName(call[p].routespec))]
    /\ tries' = [tries EXCEPT ![p] = 0]

\* The call of p goes on to its next suspension point.
Goto(p, step, kind) ==
    /\ pc' = [pc EXCEPT ![p] = At(step, kind)]
    /\ tries' = [tries EXCEPT ![p] = 0]
    /\ UNCHANGED <<err, objs>>

Begin(p, c) ==
    /\ c.cascade = (ApiKey(namespace, SafeName(c.routespec)) \in gc)
    /\ pc[p].step \in {"idle", "done"}
    /\ ncalls < MaxCalls
    /\ ncalls' = ncalls + 1
    /\ last' = [last EXCEPT ![p] = [call |-> call[p], err |-> err[p], objs |-> objs[p]]]
    /\ call' = [call EXCEPT ![p] = c]
    /\ log' = [log EXCEPT ![p] = <<>>]
    /\ seen' = [seen EXCEPT ![p] = {}]
    /\ err' = [err EXCEPT ![p] = NoErr]
    /\ objs' = [objs EXCEPT ![p] = NoObjs]
    /\ tries' = [tries EXCEPT ![p] = 0]
    /\ UNCHANGED <<cluster, cache, gc>>


\* ------------------------------------------------------------- add_route
\* Lines 160-173 and the test of line 193: the name and the three bodies are
\* computed from the arguments; the call suspends at its first API request.
StartAdd(p, routespec, target, data) ==
    LET c == [op |-> "add", routespec |-> routespec, target |-> target, data |-> data,
              cascade |-> ApiKey(namespace, SafeName(routespec)) \in gc]
    IN  /\ Begin(p, c)
        /\ pc' = [pc EXCEPT ![p] = IF Body(c, "endpoints") # None
                                   THEN At("create", "endpoints")
                                   ELSE At("delete_endpoint", "endpoints")]
        /\ UNCHANGED <<snap, table, names>>

\* A fallback request addressed to a name other than the body's.
PatchNameOther(body) == <<"o", "t", "h", "e", "r">>

\* A fallback request addressed to the name of another route.
PatchNameNeighbour(body) == SafeName(<<"/", "B">>)

\* ensure_object, line 188: the name the fallback request addresses.
PatchName(body) == body.name

\* A conflict that is re-raised like any other failure.
AfterCreateFailureRaise(status) == "raise"

\* Any failed create answered by the fallback request.
AfterCreateFailureAlwaysPatch(status) == "patch"

\* ensure_object, lines 179-191: what follows a failed create.
AfterCreateFailure(status) == IF status = 409 THEN "patch" ELSE "raise"

\* The endpoints and service writes followed at once by the next write.
AfterWriteSkip(kind) ==
    IF kind = "ingress" THEN At("wait", kind) ELSE At("create", NextKind(kind))

\* Lines 201, 221, 234: a write that succeeded is followed by the
\* confirmation of its kind.
AfterWrite(kind) == At("wait", kind)

\* ensure_object, lines 176-178 and 179-191: create_func(namespace, body).
EnsureCreate(p) ==
    /\ pc[p].step = "create"
    /\ LET k == pc[p].kind
           body == Body(call[p], k)
       IN  \E status \in CreateStatuses(k, namespace, body) :
            /\ cluster' = Created(k, namespace, body, status)
            /\ log' = [log EXCEPT ![p] =
                         Append(@, Request("create", k, namespace, body.name, status))]
            /\ IF status = 201 THEN Goto(p, AfterWrite(k).step, AfterWrite(k).kind)
               ELSE IF AfterCreateFailure(status) = "patch" THEN Goto(p, "patch", k)
               ELSE Finish(p, ApiException(status, k), cluster')
    /\ UNCHANGED <<cache, gc, call, seen, last, ncalls, snap, table, names>>

\* ensure_object, lines 185-189: patch_func(namespace, body, name).
EnsurePatch(p) ==
    /\ pc[p].step = "patch"
    /\ LET k == pc[p].kind
           body == Body(call[p], k)
           name == PatchName(body)
       IN  \E status \in PatchStatuses(k, namespace, name) :
            /\ cluster' = Patched(k, namespace, name, body, status)
            /\ log' = [log EXCEPT ![p] =
                         Append(@, Request("patch", k, namespace, name, status))]
            /\ IF status = 200 THEN Goto(p, AfterWrite(k).step, AfterWrite(k).kind)
               ELSE Finish(p, ApiException(status, k), cluster')
    /\ UNCHANGED <<cache, gc, call, seen, last, ncalls, snap, table, names>>

\* A backoff without a deadline.
DeadlinePassedNever(n) == {FALSE}

\* exponential_backoff: after a failed check the deadline has passed or not;
\* it has passed at the latest after MaxBackoffTries sleeps.
DeadlinePassed(n) == IF n >= MaxBackoffTries THEN {TRUE} ELSE {TRUE, FALSE}

\* Lines 202-203, 222-223, 235-236: the check exponential_backoff repeats.
Visible(kind, safe_name) == CacheKey(namespace, safe_name) \in DOMAIN cache[kind]

\* A return after the first confirmation.
AfterConfirmEarly(kind) == "return"

\* Lines 214, 227 and the return after line 238: what follows a confirmation.
AfterConfirm(kind) == IF kind = "ingress" THEN "return" ELSE "create"

\* Lines 201-205, 221-225, 234-238: one check of exponential_backoff, then
\* the next step, a sleep, or TimeoutError.
Backoff(p) ==
    /\ pc[p].step = "wait"
    /\ LET k == pc[p].kind
       IN  IF Visible(k, SafeName(call[p].routespec))
           THEN /\ seen' = [seen EXCEPT ![p] = @ \cup {k}]
                /\ IF AfterConfirm(k) = "return"
                   THEN Finish(p, NoErr, cluster)
                   ELSE Goto(p, "create", NextKind(k))
           ELSE /\ seen' = seen
                /\ \E expired \in DeadlinePassed(tries[p]) :
                     IF expired
                     THEN Finish(p, TimeoutError(k), cluster)
                     ELSE /\ tries' = [tries EXCEPT ![p] =
                                         IF @ < MaxBackoffTries THEN @ + 1 ELSE @]
                          /\ UNCHANGED <<pc, err, objs>>
    /\ UNCHANGED <<cluster, cache, gc, call, log, last, ncalls, snap, table, names>>

\* Lines 151-158: delete_if_exists awaits what it is given.  Awaiting a
\* value that is no awaitable raises TypeError; a 404 raised by the awaited
\* request is swallowed, any other failure re-raised.
delete_if_exists(kind, safe_name, future) ==
    IF ~future.awaitable THEN TypeError(kind)
    ELSE IF future.status = 404 \/ future.status < 300 THEN NoErr
    ELSE ApiException(future.status, kind)

\* Lines 207-212: the builder gave no endpoints body.  The delete request is
\* awaited in line 207, so its failure is raised there; its response is then
\* handed to delete_if_exists.
AddDeleteEndpoint(p) ==
    /\ pc[p].step = "delete_endpoint"
    /\ LET name == SafeName(call[p].routespec)
       IN  \E status \in DeleteStatuses("endpoints", namespace, name) :
            /\ cluster' = Deleted("endpoints", namespace, name, status)
            /\ log' = [log EXCEPT ![p] =
                         Append(@, Request("delete", "endpoints", namespace, name, status))]
            /\ IF status # 200
               THEN Finish(p, ApiException(status, "endpoints"), cluster')
               ELSE LET e == delete_if_exists("endpoint", name, Response(status))
                    IN  IF e # NoErr THEN Finish(p, e, cluster')
                        ELSE Goto(p, "create", "service")
    /\ UNCHANGED <<cache, gc, call, seen, last, ncalls, snap, table, names>>

\* ----------------------------------------------------------- delete_route
\* Lines 240-247.
StartDelete(p, routespec) ==
    /\ Begin(p, [op |-> "delete", routespec |-> routespec, target |-> "", data |-> <<>>,
                 cascade |-> ApiKey(namespace, SafeName(routespec)) \in gc])
    /\ pc' = [pc EXCEPT ![p] = At("delete", "endpoints")]
    /\ UNCHANGED <<snap, table, names>>

\* asyncio.gather (line 275): the first exception among its awaitables, in
\* the order given.
RECURSIVE gather(_)
gather(results) ==
    IF results = <<>> THEN NoErr
    ELSE IF Head(results) # NoErr THEN Head(results)
    ELSE gather(Tail(results))

\* Lines 249-266: the three delete requests, each awaited where it is made,
\* in the order endpoints, service, ingress; lines 275-279 follow the third.
DeleteRequest(p) ==
    /\ pc[p].step = "delete"
    /\ LET k == pc[p].kind
           name == SafeName(call[p].routespec)
       IN  \E status \in DeleteStatuses(k, namespace, name) :
            /\ cluster' = Deleted(k, namespace, name, status)
            /\ gc' = Cascading(k, namespace, name, status)
            /\ log' = [log EXCEPT ![p] =
                         Append(@, Request("delete", k, namespace, name, status))]
            /\ IF status # 200 THEN Finish(p, ApiException(status, k), cluster')
               ELSE IF k # "ingress" THEN Goto(p, "delete", NextKind(k))
               ELSE Finish(p,
                           gather(<<delete_if_exists("endpoint", name, Response(status)),
                                    delete_if_exists("service", name, Response(status)),
                                    delete_if_exists("ingress", name, Response(status))>>),
                           cluster')
    /\ UNCHANGED <<cache, call, seen, last, ncalls, snap, table, names>>

\* ---------------------------------------------------------- get_all_routes
\* A route table keyed by the name of each ingress.
get_all_routes_by_name(ingresses) ==
    LET values == { ingresses[key] : key \in DOMAIN ingresses }
    IN  [ n \in { ingress.name : ingress \in values } |->
            LET ingress == CHOOSE i \in values : i.name = n
            IN  [routespec |-> ingress.routespec,
                 target |-> ingress.target,
                 data |-> json_loads(ingress.data)] ]

\* Lines 285-301: the route table read from a copy of the ingress cache.
get_all_routes(ingresses) ==
    LET ingress_copy == ingresses
        values == { ingress_copy[key] : key \in DOMAIN ingress_copy }
    IN  [ r \in { ingress.routespec : ingress \in values } |->
            LET ingress == CHOOSE i \in values : i.routespec = r
            IN  [routespec |-> ingress.routespec,
                 target |-> ingress.target,
                 data |-> json_loads(ingress.data)] ]

RoutesCall == [NoCall EXCEPT !.op = "routes"]

\* Line 285: get_all_routes starts by copying the ingress reflector's
\* resources; the copy is one step.
CopyIngresses(p) ==
    /\ pc[p].step \in {"idle", "done"}
    /\ ncalls < MaxCalls
    /\ ncalls' = ncalls + 1
    /\ last' = [last EXCEPT ![p] = [call |-> call[p], err |-> err[p], objs |-> objs[p]]]
    /\ call' = [call EXCEPT ![p] = RoutesCall]
    /\ log' = [log EXCEPT ![p] = <<>>]
    /\ seen' = [seen EXCEPT ![p] = {}]
    /\ err' = [err EXCEPT ![p] = NoErr]
    /\ objs' = [objs EXCEPT ![p] = NoObjs]
    /\ tries' = [tries EXCEPT ![p] = 0]
    /\ snap' = [snap EXCEPT ![p] = cache["ingress"]]
    /\ pc' = [pc EXCEPT ![p] = At("read", "ingress")]
    /\ UNCHANGED <<cluster, cache, gc, table, names>>

\* The loop reading the reflector's resources themselves.
IteratedLive(p) == cache["ingress"]

\* Line 287: the loop reads ingress_copy.
Iterated(p) == snap[p]

\* Lines 286-301: the loop over the ingresses and the return.  The watch may
\* have changed the reflector's resources since the copy; `live` keeps what
\* they are when the call returns.
ReturnRoutes(p) ==
    /\ pc[p].step = "read"
    /\ table' = [table EXCEPT ![p] = [routes |-> get_all_routes(Iterated(p)),
                                      live |-> cache["ingress"]]]
    /\ pc' = [pc EXCEPT ![p] = Done]
    /\ UNCHANGED <<cluster, cache, gc, call, tries, seen, log, err, objs, last, ncalls,
                   snap, names>>

\* ---------------------------------------------------------------- names
\* The routespecs safe names are computed for: every string of at most
\* MaxRouteLen characters, the empty one included, and long ones on both
\* sides of the length from which the slug is cut and hashed.
MaxRouteLen == 2

NameChars == { "/", "a", "B", "-", "é" }

LongRoutespecs ==
    { [i \in 1..42 |-> "a"],
      [i \in 1..43 |-> "a"],
      [i \in 1..18 |-> IF i <= 2 THEN "a" ELSE "/"],
      [i \in 1..60 |-> "B"] }

NameInputs ==
    UNION { [1..n -> NameChars] : n \in 0..MaxRouteLen } \cup LongRoutespecs

\* Names are computed in pairs, to be compared.
Computed(by, routespec, name) ==
    /\ Len(names) < 2
    /\ names' = << [routespec |-> routespec, name |-> name, by |-> by] >> \o names
    /\ UNCHANGED <<cluster, cache, gc, pc, call, tries, seen, log, err, objs, last, ncalls,
                   snap, table>>

\* Line 165: the name add_route computes for a routespec.
AddName(routespec) == Computed("add", routespec, add_safe_name(routespec))

\* Line 245: the name delete_route computes for a routespec.
DeleteName(routespec) == Computed("delete", routespec, delete_safe_name(routespec))

\* ------------------------------------------------------------ environment
\* A reflector's watch brings one entry of its cache up to the cluster.
Watch(kind, name) ==
    /\ Obj(cache, kind, CacheKey(namespace, name)) # Obj(cluster, kind, ApiKey(namespace, name))
    /\ cache' = IF ApiKey(namespace, name) \in DOMAIN cluster[kind]
                THEN Put(cache, kind, CacheKey(namespace, name),
                         cluster[kind][ApiKey(namespace, name)])
                ELSE Remove(cache, kind, CacheKey(namespace, name))
    /\ UNCHANGED <<cluster, gc, pc, call, tries, seen, log, err, objs, last, ncalls, snap, table, names>>

\* The cluster's background deletion of the endpoints of a deleted service,
\* done when the service is still gone.
Cascade(key) ==
    /\ key \in gc
    /\ gc' = gc \ {key}
    /\ cluster' = IF key \in DOMAIN cluster["endpoints"] /\ key \notin DOMAIN cluster["service"]
                  THEN Remove(cluster, "endpoints", key) ELSE cluster
    /\ UNCHANGED <<cache, pc, call, tries, seen, log, err, objs, last, ncalls, snap, table, names>>

\* ---------------------------------------------------------- specifications
\* Calls serialised by one caller.
Callers == {1}

Next ==
    \/ \E p \in Callers, a \in AddInputs : StartAdd(p, a[1], a[2], a[3])
    \/ \E p \in Callers : EnsureCreate(p)
    \/ \E p \in Callers : EnsurePatch(p)
    \/ \E p \in Callers : Backoff(p)
    \/ \E p \in Callers : AddDeleteEndpoint(p)
    \/ \E p \in Callers, r \in DeleteInputs : StartDelete(p, r)
    \/ \E p \in Callers : DeleteRequest(p)
    \/ \E k \in Kinds, n \in Names : Watch(k, n)
    \/ \E key \in gc : Cascade(key)

Spec == Init /\ [][Next]_vars

\* add_route alone, its steps scheduled fairly: the event loop resumes a
\* suspended call and the API answers; the watch owes nothing.
LiveCalls == 2

AddStep(p) == EnsureCreate(p) \/ EnsurePatch(p) \/ Backoff(p) \/ AddDeleteEndpoint(p)

NextLive ==
    \/ \E p \in Callers, a \in AddInputs : ncalls < LiveCalls /\ StartAdd(p, a[1], a[2], a[3])
    \/ \E p \in Callers : EnsureCreate(p)
    \/ \E p \in Callers : EnsurePatch(p)
    \/ \E p \in Callers : Backoff(p)
    \/ \E p \in Callers : AddDeleteEndpoint(p)
    \/ \E k \in Kinds, n \in Names : Watch(k, n)

SpecLive == Init /\ [][NextLive]_vars /\ \A p \in Callers : WF_vars(AddStep(p))

\* Two callers, each making one add_route call for one routespec, the calls
\* overlapping in any way: no delete_route, and targets for which the builder
\* gives all three bodies.
ConcInputs == { a \in AddInputs : a[2] \in IpTargets }

NextConc ==
    \/ \E p \in Procs, a \in ConcInputs : pc[p] = Idle /\ StartAdd(p, a[1], a[2], a[3])
    \/ \E p \in Procs : EnsureCreate(p)
    \/ \E p \in Procs : EnsurePatch(p)
    \/ \E p \in Procs : Backoff(p)
    \/ \E k \in Kinds, n \in Names : Watch(k, n)

SpecConc == Init /\ [][NextConc]_vars

\* get_all_routes called while another caller adds and deletes routes and the
\* watch updates the caches.
ReadCalls == 2

NextRead ==
    \/ \E p \in Procs : ncalls < ReadCalls /\ CopyIngresses(p)
    \/ \E p \in Procs : ReturnRoutes(p)
    \/ \E p \in Callers, a \in AddInputs : ncalls < ReadCalls /\ StartAdd(p, a[1], a[2], a[3])
    \/ \E p \in Callers : EnsureCreate(p)
    \/ \E p \in Callers : EnsurePatch(p)
    \/ \E p \in Callers : Backoff(p)
    \/ \E p \in Callers : AddDeleteEndpoint(p)
    \/ \E p \in Callers, r \in DeleteInputs : ncalls < ReadCalls /\ StartDelete(p, r)
    \/ \E p \in Callers : DeleteRequest(p)
    \/ \E k \in Kinds, n \in Names : Watch(k, n)
    \/ \E key \in gc : Cascade(key)

SpecRead == Init /\ [][NextRead]_vars

\* The name codec alone, applied to routespecs in any order.
NextName ==
    \/ \E r \in NameInputs : AddName(r)
    \/ \E r \in NameInputs : DeleteName(r)

SpecName == Init /\ [][NextName]_vars


\* ------------------------------------------------------------- properties
Returned(p) == pc[p].step = "done"
Running(p) == pc[p].step \notin {"idle", "done"}
IsAdd(p) == call[p].op = "add"
IsDelete(p) == call[p].op = "delete"
Answered(p, verb, kind, status) ==
    \E i \in 1..Len(log[p]) : log[p][i] = Request(verb, kind, namespace,
                                                  SafeName(call[p].routespec), status)
Rank(kind) == CASE kind = "endpoints" -> 1 [] kind = "service" -> 2 [] OTHER -> 3

\* C1: in add_route, a create answered Conflict (409) is followed by exactly
\* one fallback (patch) request, of the same kind, addressed to the configured
\* namespace and to the name of the body; no fallback request is made without
\* that conflict; the conflict is never what add_route raises; and once the
\* fallback succeeded the call goes on to confirm that kind in the cache.
ConflictFallback ==
    \A p \in Callers : IsAdd(p) =>
        /\ \A i \in 1..Len(log[p]) :
             (log[p][i].verb = "create" /\ log[p][i].status = 409) =>
                 IF i = Len(log[p]) THEN pc[p] = At("patch", log[p][i].kind)
                 ELSE /\ log[p][i + 1].verb = "patch"
                      /\ log[p][i + 1].kind = log[p][i].kind
                      /\ log[p][i + 1].namespace = namespace
                      /\ log[p][i + 1].name = Body(call[p], log[p][i].kind).name
                      /\ log[p][i + 1].name = log[p][i].name
                      /\ log[p][i + 1].status = 200 =>
                            \/ log[p][i].kind \in seen[p]
                            \/ pc[p] = At("wait", log[p][i].kind)
                            \/ err[p] = TimeoutError(log[p][i].kind)
        /\ \A i \in 1..Len(log[p]) :
             log[p][i].verb = "patch" =>
                 /\ i > 1
                 /\ log[p][i - 1].verb = "create"
                 /\ log[p][i - 1].status = 409
                 /\ log[p][i - 1].kind = log[p][i].kind
        /\ \A k \in Kinds :
             Cardinality({ i \in 1..Len(log[p]) :
                             log[p][i].verb = "patch" /\ log[p][i].kind = k }) <= 1
        /\ ~(err[p].type = "ApiException" /\ err[p].status = 409)

\* An add_route that met a conflict on each of its three creates and returned.
ConflictFallbackWitness ==
    \E p \in Callers :
        /\ IsAdd(p) /\ Returned(p) /\ err[p] = NoErr
        /\ \A k \in Kinds : Answered(p, "create", k, 409) /\ Answered(p, "patch", k, 200)

\* C2: the requests of an add_route come in the order endpoints, service,
\* ingress; a service request is made only when the endpoints name has been
\* found in the endpoints cache, an ingress request only when the service name
\* has been found in the service cache; the ingress is confirmed last, and
\* add_route returns only once it is.
StepsInOrder ==
    \A p \in Callers : IsAdd(p) =>
        /\ \A i, j \in 1..Len(log[p]) : i < j => Rank(log[p][i].kind) <= Rank(log[p][j].kind)
        /\ \A i \in 1..Len(log[p]) :
             /\ log[p][i].kind = "service" => "endpoints" \in seen[p]
             /\ log[p][i].kind = "ingress" => {"endpoints", "service"} \subseteq seen[p]
        /\ (Running(p) /\ pc[p].kind = "service") => "endpoints" \in seen[p]
        /\ (Running(p) /\ pc[p].kind = "ingress") => {"endpoints", "service"} \subseteq seen[p]
        /\ "ingress" \in seen[p] => seen[p] = Kinds
        /\ (Returned(p) /\ err[p] = NoErr) => "ingress" \in seen[p]

\* An add_route that created all three resources and returned.
StepsInOrderWitness ==
    \E p \in Callers :
        /\ IsAdd(p) /\ Returned(p) /\ err[p] = NoErr
        /\ \A k \in Kinds : Answered(p, "create", k, 201)
        /\ seen[p] = Kinds


SameArgs(c1, c2) ==
    /\ c1.op = c2.op /\ c1.routespec = c2.routespec
    /\ c1.target = c2.target /\ c1.data = c2.data

\* The call of p is an add_route that has ended and that follows, with the
\* same arguments, an add_route that returned.
SecondOfPair(p) ==
    /\ IsAdd(p) /\ Returned(p)
    /\ SameArgs(last[p].call, call[p])
    /\ last[p].err = NoErr

\* Where the second add_route of a pair ends: without error unless the API
\* failed or the cache never showed a write; and when it returned, with the
\* three resources of its name as the first call left them, one of each kind,
\* every create answered Conflict and resolved by the fallback.
PairIdempotent(p) ==
    /\ \/ err[p] = NoErr
       \/ err[p].type = "ApiException" /\ err[p].status = 500
       \/ err[p].type = "TimeoutError"
    /\ err[p] = NoErr =>
         /\ objs[p] = last[p].objs
         /\ \A k \in Kinds : objs[p][k] # None /\ objs[p][k] = Body(call[p], k)
         /\ \A k \in Kinds : Answered(p, "create", k, 409) /\ Answered(p, "patch", k, 200)

RoundTrip ==
    \A p \in Callers : (IsAdd(p) /\ Returned(p) /\ err[p] = NoErr) =>
        LET routes == get_all_routes(cache["ingress"])
        IN  /\ call[p].routespec \in DOMAIN routes
            /\ routes[call[p].routespec] = [routespec |-> call[p].routespec,
                                            target |-> call[p].target,
                                            data |-> call[p].data]

\* The deletions of the delete_route of p were all answered, with success or
\* NotFound: no failure that the teardown contract re-raises.
OnlyNotFound(p) ==
    \A i \in 1..Len(log[p]) : log[p][i].status \in {200, 404}

\* C5: a delete_route that finds none, or only some, of the three resources
\* (some deletion answered NotFound, none failing otherwise) ends without
\* error.
TeardownTolerance ==
    \A p \in Callers :
        (IsDelete(p) /\ Returned(p) /\ OnlyNotFound(p)
            /\ \E i \in 1..Len(log[p]) : log[p][i].status = 404)
        => err[p] = NoErr

DeletionsIndependent ==
    \A p \in Callers :
        (IsDelete(p) /\ Returned(p)) =>
            { log[p][i].kind : i \in 1..Len(log[p]) } = Kinds

\* C8: delete_route ends with all three deletion outcomes resolved, and
\* fails exactly when one of them failed with a status other than NotFound,
\* raising that failure.
DeleteJoin ==
    \A p \in Callers :
        (IsDelete(p) /\ Returned(p)) =>
            /\ { log[p][i].kind : i \in 1..Len(log[p]) } = Kinds
            /\ err[p] # NoErr <=> ~OnlyNotFound(p)
            /\ err[p] # NoErr =>
                 /\ err[p].type = "ApiException"
                 /\ \E i \in 1..Len(log[p]) :
                      log[p][i].status = err[p].status /\ log[p][i].status \notin {200, 404}

\* C9: in add_route, a create answered with a failure other than Conflict,
\* and a fallback request answered with a failure, is the last request of the
\* call, which ends raising that very failure.
WriteFailureFatal ==
    \A p \in Callers : IsAdd(p) =>
        \A i \in 1..Len(log[p]) :
            (\/ log[p][i].verb = "create" /\ log[p][i].status \notin {201, 409}
             \/ log[p][i].verb = "patch" /\ log[p][i].status # 200)
            => /\ i = Len(log[p])
               /\ Returned(p)
               /\ err[p] = ApiException(log[p][i].status, log[p][i].kind)

\* An add_route whose fallback request for the service failed, after the
\* endpoints step: no ingress request was made.
WriteFailureFatalWitness ==
    \E p \in Callers :
        /\ IsAdd(p) /\ Returned(p)
        /\ "endpoints" \in seen[p]
        /\ Len(log[p]) > 0
        /\ log[p][Len(log[p])].verb = "patch"
        /\ log[p][Len(log[p])].kind = "service"
        /\ log[p][Len(log[p])].status # 200
        /\ err[p].type = "ApiException"

\* C10: an add_route raises TimeoutError only for a kind whose name it did
\* not find in the cache within the backoff's sleeps, and then has made no
\* request for a later kind; and every add_route that is running eventually
\* ends, returning or raising.
ConfirmationTimeout ==
    /\ [](\A p \in Callers :
            /\ tries[p] <= MaxBackoffTries
            /\ (IsAdd(p) /\ Returned(p) /\ err[p].type = "TimeoutError") =>
                 /\ err[p].kind \notin seen[p]
                 /\ Len(log[p]) > 0
                 /\ \A i \in 1..Len(log[p]) : Rank(log[p][i].kind) <= Rank(err[p].kind)
                 /\ log[p][Len(log[p])].kind = err[p].kind
                 /\ log[p][Len(log[p])].status \in {200, 201})
    /\ \A p \in Callers : (IsAdd(p) /\ Running(p)) ~> Returned(p)

\* An add_route that wrote its service and raised TimeoutError waiting for it.
ConfirmationTimeoutWitness ==
    \E p \in Callers :
        /\ IsAdd(p) /\ Returned(p)
        /\ err[p] = TimeoutError("service")
        /\ Answered(p, "create", "service", 201)


\* C11: when the builder gives no endpoints body, add_route asks for the
\* deletion of the endpoints of the safe name, and a NotFound (404) answer is
\* no error: add_route does not raise it and goes on to the service step.
EndpointAbsenceTolerated ==
    \A p \in Callers :
        (IsAdd(p) /\ Body(call[p], "endpoints") = None
            /\ Answered(p, "delete", "endpoints", 404))
        => /\ err[p] # ApiException(404, "endpoints")
           /\ \/ Running(p) /\ pc[p].kind \in {"service", "ingress"}
              \/ Returned(p) /\ Len(log[p]) > 1


\* Both callers have a call, for the same routespec, that has ended.
BothEnded ==
    /\ \A p \in Procs : IsAdd(p) /\ Returned(p)
    /\ call[1].routespec = call[2].routespec

\* C12: add_route calls for one routespec that overlap in any way, with no
\* delete_route and no API failure other than Conflict, and the caches being
\* updated in time: each call that ends, ends without error, a Conflict being
\* answered by the fallback request; and when both have ended without error
\* the cluster holds an endpoints, a service and an ingress of the safe name.
ConcurrentAddsConverge ==
    /\ \A p \in Procs :
         (IsAdd(p) /\ Returned(p))
         => \/ err[p] = NoErr
            \/ err[p].type = "TimeoutError"
            \/ err[p].type = "ApiException" /\ err[p].status = 500
    /\ (BothEnded /\ \A p \in Procs : err[p] = NoErr)
       => \A k \in Kinds :
            ApiKey(namespace, SafeName(call[1].routespec)) \in DOMAIN cluster[k]

\* Both calls returned, one of them having had a create answered Conflict
\* after the other's create of the same kind was answered Created.
ConcurrentAddsConvergeWitness ==
    /\ BothEnded
    /\ \A p \in Procs : err[p] = NoErr
    /\ \E k \in Kinds : Answered(1, "create", k, 201) /\ Answered(2, "create", k, 409)


IsRoutes(p) == call[p].op = "routes"

\* C13: get_all_routes is a pure read.  No step of it makes an API request
\* or changes the cluster or a cache; and what it returns is keyed by
\* routespec and holds, for every ingress of the copied ingress cache and for
\* nothing else, the record of the routespec, the target and the data read
\* back from the ingress's annotations.
RoutesPureRead ==
    /\ [](\A p \in Procs :
            (IsRoutes(p) /\ Returned(p))
            => LET routes == table[p].routes
                   values == { snap[p][key] : key \in DOMAIN snap[p] }
               IN  /\ DOMAIN routes = { i.routespec : i \in values }
                   /\ DOMAIN routes \subseteq Routespecs
                   /\ \A i \in values :
                        \E d \in Datas :
                           /\ json_dumps(d) = i.data
                           /\ routes[i.routespec] =
                                [routespec |-> i.routespec, target |-> i.target, data |-> d])
    /\ [][\A p \in Procs :
            (call'[p].op = "routes" /\ pc'[p] # pc[p])
            => /\ cluster' = cluster /\ cache' = cache /\ gc' = gc
               /\ log'[p] = <<>>]_vars

\* A get_all_routes that returned two routes, one of them with a payload.
RoutesPureReadWitness ==
    \E p \in Procs :
        /\ IsRoutes(p) /\ Returned(p)
        /\ Cardinality(DOMAIN table[p].routes) = 2
        /\ \E r \in DOMAIN table[p].routes : table[p].routes[r].data # <<>>

\* C17: get_all_routes works on a copy of the ingress cache taken at one
\* instant.  Whatever the watch adds, replaces or removes while the call
\* runs, the call does not fail and what it returns is the route table of the
\* cache as it was at the instant of the copy.
RoutesOfOneInstant ==
    \A p \in Procs :
        (IsRoutes(p) /\ Returned(p))
        => /\ err[p] = NoErr
           /\ table[p].routes = get_all_routes(snap[p])

\* A get_all_routes that returned after the watch had changed the ingress
\* cache under it, the route table of the changed cache being another one.
RoutesOfOneInstantWitness ==
    \E p \in Procs :
        /\ IsRoutes(p) /\ Returned(p)
        /\ table[p].live # snap[p]
        /\ get_all_routes(table[p].live) # table[p].routes


\* The slug of a routespec is long enough to be cut and hashed.
Hashed(routespec) == Len(escape(routespec)) + 14 >= 57

UnsafeIn(routespec) == { routespec[i] : i \in 1..Len(routespec) } \ safe_chars

\* C14: the safe name is a function of the routespec alone.  Computed again,
\* by add_route or by delete_route, the name of a routespec is the same, so
\* both address the same name; and two different routespecs have different
\* names (for names that are not cut and hashed: a collision of hashes is
\* excluded by the claim).
NameOfRoutespecOnly ==
    \A i, j \in DOMAIN names :
        /\ names[i].routespec = names[j].routespec => names[i].name = names[j].name
        /\ (names[i].routespec # names[j].routespec
              /\ ~Hashed(names[i].routespec) /\ ~Hashed(names[j].routespec))
           => names[i].name # names[j].name

\* add_route and then delete_route computed the name of one routespec that
\* has characters to escape.
NameOfRoutespecOnlyWitness ==
    /\ Len(names) = 2
    /\ names[1].by = "delete" /\ names[2].by = "add"
    /\ names[1].routespec = names[2].routespec
    /\ "B" \in UnsafeIn(names[1].routespec)

LowerLetters ==
    { "a", "b", "c", "d", "e", "f", "g", "h", "i", "j", "k", "l", "m",
      "n", "o", "p", "q", "r", "s", "t", "u", "v", "w", "x", "y", "z" }
Digits == { "0", "1", "2", "3", "4", "5", "6", "7", "8", "9" }

CharsOf(name) == { name[i] : i \in 1..Len(name) }

\* C16 as stated: every safe name consists of lowercase letters and digits
\* only.
NameLowerAlnumOnly ==
    \A i \in DOMAIN names : CharsOf(names[i].name) \subseteq LowerLetters \cup Digits

\* C16: for every routespec, the empty one and those with characters outside
\* the safe alphabet included, the safe name add_route and delete_route use
\* consists of lowercase letters, digits and the escape character "-" only,
\* begins with a letter, ends with a letter or a digit, and has at most 63
\* characters.
NameLegal ==
    \A i \in DOMAIN names :
        LET n == names[i].name
        IN  /\ Len(n) >= 1 /\ Len(n) <= 63
            /\ CharsOf(n) \subseteq LowerLetters \cup Digits \cup {"-"}
            /\ n[1] \in LowerLetters
            /\ n[Len(n)] \in LowerLetters \cup Digits

\* The names of the empty routespec and of one that is cut and hashed and has
\* characters to escape.
NameLegalWitness ==
    /\ Len(names) = 2
    /\ names[1].routespec = <<>>
    /\ Hashed(names[2].routespec) /\ UnsafeIn(names[2].routespec) # {}


\* C15: add_route confirms each write against the watch cache.  Whenever the
\* confirmation of a kind succeeds, on the create path and on the fallback
\* path alike, the cache it looked at holds under the safe name the object
\* the call wrote.
ConfirmedWriteVisible ==
    [][\A p \in Callers, k \in Kinds :
         (IsAdd(p) /\ k \notin seen[p] /\ k \in seen'[p])
         => Obj(cache, k, CacheKey(namespace, SafeName(call[p].routespec)))
              = Body(call[p], k)]_vars


\* C18: whether they succeed or fail, add_route(r, ...) and delete_route(r)
\* address every request to the configured namespace and to the safe name of
\* r, change no object of the cluster under another name, and change no
\* cache: the caches change by the watch alone.
FrameOfCall ==
    [][\A p \in Callers :
         (pc'[p] # pc[p] \/ log'[p] # log[p] \/ tries'[p] # tries[p])
         => LET key == ApiKey(namespace, SafeName(call'[p].routespec))
            IN  /\ cache' = cache
                /\ \A i \in DOMAIN log'[p] :
                     /\ log'[p][i].namespace = namespace
                     /\ log'[p][i].name = SafeName(call'[p].routespec)
                /\ \A k \in Kinds :
                     \A other \in (DOMAIN cluster[k] \cup DOMAIN cluster'[k]) \ {key} :
                        Obj(cluster', k, other) = Obj(cluster, k, other)]_vars

\* A call for "/a" that wrote or deleted an object while the cluster holds
\* the ingress of the route "/B".
FrameOfCallWitness ==
    \E p \in Callers :
        /\ Returned(p)
        /\ call[p].routespec = <<"/", "a">>
        /\ \/ Answered(p, "patch", "ingress", 200)
           \/ Answered(p, "delete", "ingress", 200)
        /\ ApiKey(namespace, SafeName(<<"/", "B">>)) \in DOMAIN cluster["ingress"]


ReturnedAdd(p) == IsAdd(p) /\ Returned(p) /\ err[p] = NoErr

\* C19 as stated: when add_route returns, the cluster holds a service and an
\* ingress of the safe name, and an endpoints too when the builder gave one,
\* whatever cache update or background deletion an earlier delete_route left
\* pending.
AddPostconditionAlways ==
    \A p \in Callers :
        ReturnedAdd(p)
        => /\ objs[p]["service"] # None
           /\ objs[p]["ingress"] # None
           /\ Body(call[p], "endpoints") # None => objs[p]["endpoints"] # None

\* C19: when add_route returns, calls being serialised, the cluster holds a
\* service and an ingress of the safe name, whatever an earlier delete_route
\* left pending; and it holds an endpoints too when the builder gave one and
\* no background deletion of the endpoints was pending when the call began.
AddPostcondition ==
    \A p \in Callers :
        ReturnedAdd(p)
        => /\ objs[p]["service"] # None
           /\ objs[p]["ingress"] # None
           /\ (Body(call[p], "endpoints") # None /\ ~call[p].cascade)
              => objs[p]["endpoints"] # None

\* An add_route that returned after a delete_route that had deleted the
\* three resources, the background deletion being over when it began.
AddPostconditionWitness ==
    \E p \in Callers :
        /\ ReturnedAdd(p)
        /\ last[p].call.op = "delete" /\ last[p].err.type = "TypeError"
        /\ ~call[p].cascade
        /\ objs[p]["endpoints"] # None


\* Both callers' add_route calls for one routespec, with different targets,
\* have returned.
RacedAdds ==
    /\ BothEnded
    /\ \A p \in Procs : err[p] = NoErr
    /\ call[1].target # call[2].target

Held(kind) == Obj(cluster, kind, ApiKey(namespace, SafeName(call[1].routespec)))

\* C20 as stated: after two racing add_route calls for one routespec, the
\* endpoints, the service and the ingress all carry the bodies of the same
\* one of the two calls.
RacingAddsOneWinner ==
    RacedAdds => \E q \in Procs : \A k \in Kinds : Held(k) = Body(call[q], k)

\* C20: after two racing add_route calls for one routespec, each of the
\* endpoints, the service and the ingress carries the body one of the two
\* calls built for it, not necessarily the same call for the three kinds.
RacingAddsEachFromOne ==
    RacedAdds => \A k \in Kinds : \E q \in Procs : Held(k) = Body(call[q], k)

\* Two racing calls that left the endpoints of one and the service of the
\* other.
RacingAddsEachFromOneWitness ==
    /\ RacedAdds
    /\ \E q, r \in Procs :
         /\ q # r
         /\ Held("endpoints") = Body(call[q], "endpoints")
         /\ Held("service") = Body(call[r], "service")

====
